---- MODULE Spec2Model ----
(***************************************************************************)
(* Model of src/app.py (doondim/crypto-bot): the token qualification and   *)
(* persistence pipeline.  One script run loads config.json, optionally     *)
(* runs run_bot over token_addresses (fetch -> filter -> save_token_data   *)
(* -> trade) and renders analyze_data.  Statements of save_token_data that *)
(* write state are separate steps, in source order, sequenced by pc.       *)
(* Columns of the tokens table that no step reads back (symbol, name,      *)
(* price, is_cex_listed, is_rugged, is_pumped, is_fake_volume, timestamp)  *)
(* are not carried.                                                        *)
(***************************************************************************)
EXTENDS Integers, Sequences, FiniteSets, TLC

\* ---------------------------------------------------------------- bounds
MaxAmount == 2
MaxRuns == 2

\* ------------------------------------------------------- program constants
\* token_addresses = ["0x...", "0x..."]: two entries
NumAddresses == 2

\* ------------------------------------------------------------ dictionaries
EmptyDict == <<>>

\* dict.get(key, default)
Get(d, k, default) == IF k \in DOMAIN d THEN d[k] ELSE default

Range(s) == {s[k] : k \in 1..Len(s)}

Count(s, x) == Cardinality({k \in 1..Len(s) : s[k] = x})

\* Python's None and a present value
None == {}
Some(x) == {x}
TheValue(o) == CHOOSE x \in o : TRUE

\* --------------------------------------------------------------- universes
MonitoredAddrs == {"a", "b"}
BaseTokenAddrs == {"a", "d"}

Amounts == 0..MaxAmount

\* an optional dictionary entry: absent, or key -> v for v in S
Opt(key, S) == {EmptyDict} \cup {key :> v : v \in S}

\* holder lists and total supplies: none, exactly 50%, and above 50%
HolderLists ==
    {<<>>, <<EmptyDict>>, <<[balance |-> 1]>>,
     <<[balance |-> 1], [balance |-> MaxAmount]>>}

Risks ==
    {h @@ s : h \in Opt("holders", HolderLists),
              s \in Opt("totalSupply", {MaxAmount})}

Quotes ==
    {l @@ f : l \in Opt("liquidity", {[usd |-> x] : x \in Amounts}),
              f \in Opt("fdv", Amounts)}

BaseTokens == {[baseToken |-> [address |-> x]] : x \in BaseTokenAddrs}

Concentrated ==
    [holders |-> <<[balance |-> 1], [balance |-> MaxAmount]>>, totalSupply |-> MaxAmount]

\* every quote with one concentrated holder list, and every holder list and
\* base token with the quotes at and above the thresholds
Pairs ==
    {EmptyDict}
        \cup {q @@ Concentrated @@ [baseToken |-> [address |-> "d"]] : q \in Quotes}
        \cup {q @@ r @@ b :
                q \in {[liquidity |-> [usd |-> x], fdv |-> MaxAmount] : x \in {1, MaxAmount}},
                r \in Risks, b \in BaseTokens}

Bodies == {EmptyDict} \cup {[pair |-> p] : p \in Pairs}

FetchResponses ==
    {[status_code |-> 500, json |-> EmptyDict]}
        \cup {[status_code |-> 200, json |-> b] : b \in Bodies}

AuditResponses ==
    {[status_code |-> 200, json |-> j] :
        j \in {EmptyDict, [status |-> "Good"], [status |-> "Bad"]}}
        \cup {[status_code |-> 500, json |-> j] : j \in {EmptyDict, [status |-> "Good"]}}

TradeResponses == {200, 500}

FilterConfigs == {[min_liquidity |-> 1, min_market_cap |-> MaxAmount]}

TokenLists == [1..NumAddresses -> MonitoredAddrs]

InitCoins == {<<>>, <<"b">>}
InitDevs == {<<>>, <<"d">>}

VARIABLES
    file,            \* contents of config.json
    config,          \* the module-level config dictionary
    tokens,          \* committed rows of the tokens table
    txn,             \* rows inserted on the open connection, not yet committed
    token_addresses, \* run_bot's list of monitored addresses
    pc,              \* position in the script
    idx,             \* position of run_bot's for loop in token_addresses
    token_data,      \* result of fetch_token_data for the current address
    locals,          \* save_token_data's local variables, and the audit
                     \* endpoint's response inside check_rugcheck_status
    calls,           \* outbound calls and inserts of the current run_bot, in order
    df_bundled,      \* analyze_data's bundled_supply_tokens, as last computed
    runs             \* script runs so far

vars ==
    <<file, config, tokens, txn, token_addresses, pc, idx, token_data, locals,
      calls, df_bundled, runs>>

NoResponse == [status_code |-> 0, json |-> EmptyDict]

\* outside save_token_data
NoLocals ==
    [dev_address |-> "", is_bundled_supply_flag |-> FALSE, rugcheck_status |-> "",
     audit_response |-> NoResponse]

Event(op, arg) == [op |-> op, i |-> idx, arg |-> arg]

\* ------------------------------------------------------------ config.json
\* json.dump(config, f): the two lists written out as bracketed arrays
json_dump(cfg) ==
    [filters |-> cfg.filters,
     text |-> <<"coins", "[">> \o cfg.blacklisted_coins \o <<"]", "devs", "[">>
              \o cfg.blacklisted_devs \o <<"]">>]

FirstIndex(s, x, from) == CHOOSE k \in from..Len(s) :
    s[k] = x /\ \A j \in from..(k - 1) : s[j] # x

\* json.load(f)
json_load(doc) ==
    LET t == doc.text
        open1 == FirstIndex(t, "[", 1)
        close1 == FirstIndex(t, "]", open1)
        open2 == FirstIndex(t, "[", close1)
        close2 == FirstIndex(t, "]", open2)
    IN [filters |-> doc.filters,
        blacklisted_coins |-> SubSeq(t, open1 + 1, close1 - 1),
        blacklisted_devs |-> SubSeq(t, open2 + 1, close2 - 1)]

\* ---------------------------------------------------------- pure functions
\* not the code: "or" in place of "and"
passes_filters_either(token) ==
    LET liquidity == Get(Get(token, "liquidity", EmptyDict), "usd", 0)
        market_cap == Get(token, "fdv", 0)
    IN liquidity >= config.filters.min_liquidity
        \/ market_cap >= config.filters.min_market_cap

passes_filters(token) ==
    LET liquidity == Get(Get(token, "liquidity", EmptyDict), "usd", 0)
        market_cap == Get(token, "fdv", 0)
    IN liquidity >= config.filters.min_liquidity
        /\ market_cap >= config.filters.min_market_cap

\* not the code: the developer list is not consulted
is_blacklisted_coins_only(token_address, dev_address) ==
    token_address \in Range(config.blacklisted_coins)

is_blacklisted(token_address, dev_address) ==
    \/ token_address \in Range(config.blacklisted_coins)
    \/ dev_address \in Range(config.blacklisted_devs)

\* not the code: the status code is not checked
check_rugcheck_status_any_code(response) ==
    Get(response.json, "status", "Unknown")

check_rugcheck_status(response) ==
    IF response.status_code = 200
    THEN Get(response.json, "status", "Unknown")
    ELSE "Unknown"

\* balance > 0.5 * total_supply, on integers
is_bundled_supply(td) ==
    LET holders == Get(Get(td, "pair", EmptyDict), "holders", <<>>)
    IN IF holders # <<>>
       THEN LET total_supply == Get(Get(td, "pair", EmptyDict), "totalSupply", 0)
            IN \E k \in 1..Len(holders) :
                   2 * Get(holders[k], "balance", 0) > total_supply
       ELSE FALSE

\* not the code: no membership test
append_always(list, x) == Append(list, x)

append_if_absent(list, x) == IF x \in Range(list) THEN list ELSE Append(list, x)

\* not the code: the token address is not recorded
add_to_blacklist_dev_only(cfg, token_address, dev_address) ==
    [cfg EXCEPT !.blacklisted_devs = append_if_absent(@, dev_address)]

\* the in-memory part of add_to_blacklist
add_to_blacklist(cfg, token_address, dev_address) ==
    [cfg EXCEPT
        !.blacklisted_coins = append_if_absent(@, token_address),
        !.blacklisted_devs = append_if_absent(@, dev_address)]

\* df[df['is_bundled_supply'] == 1]
bundled_supply_tokens(df) == SelectSeq(df, LAMBDA r : r.is_bundled_supply)

\* bool(token_data): None and {} are falsy
Truthy(td) == td # None /\ TheValue(td) # EmptyDict

\* -------------------------------------------------------------------- Init
Init ==
    /\ \E c \in InitCoins, d \in InitDevs, f \in FilterConfigs :
          file = json_dump([filters |-> f, blacklisted_coins |-> c,
                            blacklisted_devs |-> d])
    /\ config = json_load(file)
    /\ tokens = <<>>
    /\ txn = <<>>
    /\ token_addresses \in TokenLists
    /\ pc = "main"
    /\ idx = 1
    /\ token_data = None
    /\ locals = NoLocals
    /\ calls = <<>>
    /\ df_bundled = <<>>
    /\ runs = 1

\* ----------------------------------------------------------------- actions
\* script start: with open("config.json") ... json.load
LoadConfig ==
    /\ pc = "start"
    /\ config' = json_load(file)
    /\ pc' = "main"
    /\ UNCHANGED <<file, tokens, txn, token_addresses, idx, token_data, locals,
                   calls, df_bundled, runs>>

\* main(): the "Run Bot" button was pressed
RunBot ==
    /\ pc = "main"
    /\ pc' = "loop"
    /\ idx' = 1
    /\ calls' = <<>>
    /\ UNCHANGED <<file, config, tokens, txn, token_addresses, token_data, locals,
                   df_bundled, runs>>

\* main(): no button, or one of the two blacklist views
NoRunBot ==
    /\ pc = "main"
    /\ pc' = "analyze_main"
    /\ UNCHANGED <<file, config, tokens, txn, token_addresses, idx, token_data,
                   locals, calls, df_bundled, runs>>

\* token_data = fetch_token_data(address)
fetch_token_data ==
    /\ pc = "loop"
    /\ idx <= Len(token_addresses)
    /\ \E response \in FetchResponses :
          /\ token_data' = IF response.status_code = 200
                           THEN Some(response.json) ELSE None
          /\ calls' = Append(calls, Event("fetch",
                          IF response.status_code = 200 THEN "ok" ELSE "failed"))
    /\ pc' = "fetched"
    /\ UNCHANGED <<file, config, tokens, txn, token_addresses, idx, locals,
                   df_bundled, runs>>

Selected == Truthy(token_data)
    /\ passes_filters(Get(TheValue(token_data), "pair", EmptyDict))

\* not the code: a failed fetch ends the loop
SkipAddress_break ==
    /\ pc = "fetched"
    /\ ~Selected
    /\ pc' = "loop"
    /\ idx' = IF token_data = None THEN Len(token_addresses) + 1 ELSE idx + 1
    /\ token_data' = None
    /\ UNCHANGED <<file, config, tokens, txn, token_addresses, locals, calls,
                   df_bundled, runs>>

\* if token_data and passes_filters(...): false, next address
SkipAddress ==
    /\ pc = "fetched"
    /\ ~Selected
    /\ pc' = "loop"
    /\ idx' = idx + 1
    /\ token_data' = None
    /\ UNCHANGED <<file, config, tokens, txn, token_addresses, locals, calls,
                   df_bundled, runs>>

\* if token_data and passes_filters(...): true, enter save_token_data
EnterSave ==
    /\ pc = "fetched"
    /\ Selected
    /\ pc' = "save"
    /\ UNCHANGED <<file, config, tokens, txn, token_addresses, idx, token_data,
                   locals, calls, df_bundled, runs>>

\* save_token_data up to rugcheck_status = check_rugcheck_status(token_address)
Extract ==
    /\ pc = "save"
    /\ \E response \in AuditResponses :
          LET td == TheValue(token_data)
              token == Get(td, "pair", EmptyDict)
          IN /\ locals' =
                  [dev_address |-> Get(Get(token, "baseToken", EmptyDict), "address", ""),
                   is_bundled_supply_flag |-> is_bundled_supply(td),
                   rugcheck_status |-> check_rugcheck_status(response),
                   audit_response |-> response]
             /\ calls' = Append(calls, Event("audit", ""))
    /\ token_data' = None
    /\ pc' = "blacklist"
    /\ UNCHANGED <<file, config, tokens, txn, token_addresses, idx, df_bundled, runs>>

\* if is_bundled_supply_flag: add_to_blacklist, the two list updates
AddToBlacklist ==
    /\ pc = "blacklist"
    /\ locals.is_bundled_supply_flag
    /\ config' = add_to_blacklist(config, token_addresses[idx], locals.dev_address)
    /\ calls' = Append(calls, Event("add", locals.dev_address))
    /\ pc' = "dump"
    /\ UNCHANGED <<file, tokens, txn, token_addresses, idx, token_data, locals,
                   df_bundled, runs>>

\* if is_bundled_supply_flag: false
SkipBlacklist ==
    /\ pc = "blacklist"
    /\ ~locals.is_bundled_supply_flag
    /\ pc' = "gate"
    /\ UNCHANGED <<file, config, tokens, txn, token_addresses, idx, token_data,
                   locals, calls, df_bundled, runs>>

\* not the code: the file is not rewritten
DumpConfig_stale ==
    /\ pc = "dump"
    /\ pc' = "gate"
    /\ UNCHANGED <<file, config, tokens, txn, token_addresses, idx, token_data,
                   locals, calls, df_bundled, runs>>

\* add_to_blacklist: with open("config.json", "w") ... json.dump
DumpConfig ==
    /\ pc = "dump"
    /\ file' = json_dump(config)
    /\ pc' = "gate"
    /\ UNCHANGED <<config, tokens, txn, token_addresses, idx, token_data, locals,
                   calls, df_bundled, runs>>

Row ==
    [dev_address |-> locals.dev_address,
     is_bundled_supply |-> locals.is_bundled_supply_flag,
     rugcheck_status |-> locals.rugcheck_status]

\* not the code: the blacklist is not consulted at the gate
InsertGate_status_only == locals.rugcheck_status = "Good"

\* if (not is_blacklisted(token_address, dev_address) and rugcheck_status == "Good")
InsertGate ==
    /\ ~is_blacklisted(token_addresses[idx], locals.dev_address)
    /\ locals.rugcheck_status = "Good"

\* the gate holds: cursor.execute(INSERT ...)
InsertRow ==
    /\ pc = "gate"
    /\ InsertGate
    /\ txn' = Append(txn, Row)
    /\ calls' = Append(calls, Event("insert", ""))
    /\ pc' = "trade"
    /\ UNCHANGED <<file, config, tokens, token_addresses, idx, token_data, locals,
                   df_bundled, runs>>

\* the gate fails
SkipInsert ==
    /\ pc = "gate"
    /\ ~InsertGate
    /\ pc' = "commit"
    /\ UNCHANGED <<file, config, tokens, txn, token_addresses, idx, token_data,
                   locals, calls, df_bundled, runs>>

\* not the code: a failed trade is tried a second time
execute_trade_retry ==
    /\ pc = "trade"
    /\ \E status_code \in TradeResponses :
          calls' = IF status_code = 200
                   THEN Append(calls, Event("trade", "ok"))
                   ELSE calls \o <<Event("trade", "failed"), Event("trade", "failed")>>
    /\ pc' = "commit"
    /\ UNCHANGED <<file, config, tokens, txn, token_addresses, idx, token_data,
                   locals, df_bundled, runs>>

\* execute_trade(token_address, "buy")
execute_trade ==
    /\ pc = "trade"
    /\ \E status_code \in TradeResponses :
          calls' = Append(calls, Event("trade",
                       IF status_code = 200 THEN "ok" ELSE "failed"))
    /\ pc' = "commit"
    /\ UNCHANGED <<file, config, tokens, txn, token_addresses, idx, token_data,
                   locals, df_bundled, runs>>

\* conn.commit(); conn.close(); return to the loop
Commit ==
    /\ pc = "commit"
    /\ tokens' = tokens \o txn
    /\ txn' = <<>>
    /\ locals' = NoLocals
    /\ idx' = idx + 1
    /\ pc' = "loop"
    /\ UNCHANGED <<file, config, token_addresses, token_data, calls, df_bundled,
                   runs>>

\* run_bot: the for loop is exhausted
LoopExit ==
    /\ pc = "loop"
    /\ idx > Len(token_addresses)
    /\ pc' = "analyze_bot"
    /\ UNCHANGED <<file, config, tokens, txn, token_addresses, idx, token_data,
                   locals, calls, df_bundled, runs>>

\* run_bot: analyze_data()
AnalyzeBot ==
    /\ pc = "analyze_bot"
    /\ df_bundled' = bundled_supply_tokens(tokens)
    /\ pc' = "analyze_main"
    /\ UNCHANGED <<file, config, tokens, txn, token_addresses, idx, token_data,
                   locals, calls, runs>>

\* main(): analyze_data()
AnalyzeMain ==
    /\ pc = "analyze_main"
    /\ df_bundled' = bundled_supply_tokens(tokens)
    /\ pc' = "end"
    /\ UNCHANGED <<file, config, tokens, txn, token_addresses, idx, token_data,
                   locals, calls, runs>>

\* the script runs again (an interaction, or a new process)
Rerun ==
    /\ pc = "end"
    /\ runs < MaxRuns
    /\ runs' = runs + 1
    /\ calls' = <<>>
    /\ pc' = "start"
    /\ UNCHANGED <<file, config, tokens, txn, token_addresses, idx, token_data,
                   locals, df_bundled>>

Next ==
    \/ LoadConfig
    \/ RunBot
    \/ NoRunBot
    \/ fetch_token_data
    \/ SkipAddress
    \/ EnterSave
    \/ Extract
    \/ AddToBlacklist
    \/ SkipBlacklist
    \/ DumpConfig
    \/ InsertRow
    \/ SkipInsert
    \/ execute_trade
    \/ Commit
    \/ LoopExit
    \/ AnalyzeBot
    \/ AnalyzeMain
    \/ Rerun

Spec == Init /\ [][Next]_vars

\* ============================================================== properties
AllAddrs == MonitoredAddrs \cup BaseTokenAddrs

PassEvents(i) == SelectSeq(calls, LAMBDA e : e.i = i)
OpsOf(s) == [k \in 1..Len(s) |-> s[k].op]
PassOps(i) == OpsOf(PassEvents(i))

InSave == pc \in {"blacklist", "dump", "gate", "trade", "commit"}

CoinListed == token_addresses[idx] \in Range(config.blacklisted_coins)
DevListed == locals.dev_address \in Range(config.blacklisted_devs)

\* some holder's balance is more than 50% of total supply (absent values are 0)
SomeHolderAboveHalf(body) ==
    LET p == Get(body, "pair", EmptyDict)
        hs == Get(p, "holders", <<>>)
    IN \E k \in 1..Len(hs) :
           2 * Get(hs[k], "balance", 0) > Get(p, "totalSupply", 0)

\* ---------------------------------------------------------------------- C1
\* C1: a row enters the open transaction only at the insertion gate, at a
\* moment when the token address is not in blacklisted_coins, the developer
\* address is not in blacklisted_devs and the audit status is "Good"; the
\* tokens table changes only by committing those rows.
C1_RowsInsertedOnlyWhenClean ==
    [][/\ (txn' # txn /\ txn' # <<>>) =>
            /\ pc = "gate"
            /\ ~CoinListed
            /\ ~DevListed
            /\ locals.rugcheck_status = "Good"
            /\ txn' = Append(txn,
                   [dev_address |-> locals.dev_address,
                    is_bundled_supply |-> locals.is_bundled_supply_flag,
                    rugcheck_status |-> "Good"])
       /\ (tokens' # tokens) => (pc = "commit" /\ tokens' = tokens \o txn)]_vars

C1_Witness ==
    /\ Len(tokens) > 0
    /\ config.blacklisted_coins # <<>>
    /\ config.blacklisted_devs # <<>>

\* ---------------------------------------------------------------------- C2
C2_State ==
    /\ pc = "dump" => (locals.is_bundled_supply_flag /\ CoinListed /\ DevListed)
    /\ (pc \in {"gate", "trade", "commit"} /\ locals.is_bundled_supply_flag) =>
            /\ CoinListed
            /\ DevListed
            /\ token_addresses[idx] \in Range(json_load(file).blacklisted_coins)
            /\ locals.dev_address \in Range(json_load(file).blacklisted_devs)
            /\ pc # "trade"
            /\ txn = <<>>
            /\ PassOps(idx) = <<"fetch", "audit", "add">>

C2_Step ==
    /\ pc = "save" =>
           locals'.is_bundled_supply_flag = SomeHolderAboveHalf(TheValue(token_data))
    /\ (pc = "commit" /\ locals.is_bundled_supply_flag) => tokens' = tokens

\* C2: a selected pair with a holder above 50% of total supply has its token
\* and developer addresses added to the blacklist (memory and file), and the
\* pass inserts no row and issues no trade, whatever the audit status.
C2_BundledIsBlacklistedNotInserted == [](C2_State) /\ [][C2_Step]_vars

C2_Witness ==
    /\ pc = "commit"
    /\ locals.is_bundled_supply_flag
    /\ locals.rugcheck_status = "Good"

\* ---------------------------------------------------------------------- C3
AuditFailed(r) == r.status_code # 200 \/ "status" \notin DOMAIN r.json

C3_State ==
    (InSave /\ AuditFailed(locals.audit_response)) =>
        /\ locals.rugcheck_status = "Unknown"
        /\ pc # "trade"
        /\ txn = <<>>
        /\ "insert" \notin Range(PassOps(idx))
        /\ "trade" \notin Range(PassOps(idx))

C3_Step ==
    (pc = "commit" /\ AuditFailed(locals.audit_response)) => tokens' = tokens

\* C3: a non-200 audit response, or a 200 response without a status field,
\* gives rugcheck_status "Unknown", and that pass inserts no row, issues no
\* trade and leaves the tokens table unchanged.
C3_AuditFailureInsertsNothing == [](C3_State) /\ [][C3_Step]_vars

C3_Witness ==
    /\ pc = "commit"
    /\ locals.audit_response.status_code = 500
    /\ ~locals.is_bundled_supply_flag
    /\ ~CoinListed
    /\ ~DevListed

\* ---------------------------------------------------------------------- C4
Eligible ==
    /\ ~locals.is_bundled_supply_flag
    /\ locals.rugcheck_status = "Good"
    /\ ~CoinListed
    /\ ~DevListed

ExpectedRow ==
    [dev_address |-> locals.dev_address, is_bundled_supply |-> FALSE,
     rugcheck_status |-> "Good"]

C4_State ==
    /\ pc = "trade" =>
           (PassOps(idx) = <<"fetch", "audit", "insert">> /\ txn = <<ExpectedRow>>)
    /\ (pc = "commit" /\ Eligible) =>
           /\ PassOps(idx) = <<"fetch", "audit", "insert", "trade">>
           /\ txn = <<ExpectedRow>>

C4_Step ==
    /\ (pc = "gate" /\ Eligible) => (pc' = "trade" /\ txn' = <<ExpectedRow>>)
    /\ pc = "trade" => (pc' = "commit" /\ txn' = txn /\ tokens' = tokens)
    /\ pc = "commit" => (pc' = "loop" /\ tokens' = tokens \o txn)
    /\ Len(tokens') >= Len(tokens)
    /\ SubSeq(tokens', 1, Len(tokens)) = tokens

\* C4: for a selected pair with no holder above 50%, audit status "Good" and
\* neither address blacklisted, the pass inserts exactly one row, then makes
\* exactly one trade call; the row is committed whatever the trade endpoint
\* answers, and rows are never removed.
C4_OneInsertThenOneTrade == [](C4_State) /\ [][C4_Step]_vars

C4_Witness ==
    /\ pc = "loop"
    /\ runs = 1
    /\ idx = 2
    /\ Len(tokens) = 1
    /\ PassOps(1) = <<"fetch", "audit", "insert", "trade">>
    /\ PassEvents(1)[4].arg = "failed"

\* ---------------------------------------------------------------------- C5
\* C5: from any blacklist the program holds, adding a pair twice leaves each
\* address exactly once in its list, and the config and the dumped file after
\* the second add equal those after the first.
C5_AddIdempotent ==
    \A t \in AllAddrs, d \in AllAddrs :
        LET once == add_to_blacklist(config, t, d)
            twice == add_to_blacklist(once, t, d)
        IN /\ twice = once
           /\ json_dump(twice) = json_dump(once)
           /\ Count(once.blacklisted_coins, t) = 1
           /\ Count(once.blacklisted_devs, d) = 1
           /\ Count(twice.blacklisted_coins, t) = 1
           /\ Count(twice.blacklisted_devs, d) = 1

C5_Witness ==
    /\ pc = "gate"
    /\ \E j, k \in 1..Len(calls) :
          /\ j < k
          /\ calls[j].op = "add"
          /\ calls[k].op = "add"
          /\ calls[j].arg = calls[k].arg
          /\ token_addresses[calls[j].i] = token_addresses[calls[k].i]
          /\ Count(config.blacklisted_coins, token_addresses[calls[k].i]) = 1
          /\ Count(config.blacklisted_devs, calls[k].arg) = 1

\* ---------------------------------------------------------------------- C6
\* C6: except between add_to_blacklist's list updates and its file write, the
\* two blacklists in config.json hold exactly the addresses of the in-memory
\* lists, so loading the file gives the same sets.
C6_FileMirrorsMemory ==
    pc # "dump" =>
        /\ Range(json_load(file).blacklisted_coins) = Range(config.blacklisted_coins)
        /\ Range(json_load(file).blacklisted_devs) = Range(config.blacklisted_devs)

C6_Witness ==
    /\ pc = "main"
    /\ runs = 2
    /\ Len(config.blacklisted_coins) = 2
    /\ Len(config.blacklisted_devs) = 2

\* ---------------------------------------------------------------------- C7
\* C7: the blacklisted token addresses and the blacklisted developer
\* addresses are disjoint in every reachable state.
C7_BlacklistsDisjoint ==
    Range(config.blacklisted_coins) \cap Range(config.blacklisted_devs) = {}

\* ---------------------------------------------------------------------- C8
Fetches == SelectSeq(calls, LAMBDA e : e.op = "fetch")

C8_State ==
    /\ \A k \in 1..Len(Fetches) : Fetches[k].i = k
    /\ \A j, k \in 1..Len(calls) : j < k => calls[j].i <= calls[k].i
    /\ pc = "loop" => Len(Fetches) = idx - 1
    /\ pc = "analyze_bot" => Len(Fetches) = Len(token_addresses)
    /\ \A k \in 1..Len(calls) :
          (calls[k].op = "fetch" /\ calls[k].arg = "failed") =>
              PassEvents(calls[k].i) = <<calls[k]>>

C8_Step ==
    /\ (pc = "fetched" /\ token_data = None) =>
          /\ UNCHANGED <<file, config, tokens, txn, calls>>
          /\ pc' = "loop"
          /\ idx' = idx + 1
    /\ (pc \in {"fetched", "commit"} /\ pc' # "save") =>
          (pc' = "loop" /\ idx' = idx + 1)
    /\ pc' = "analyze_bot" => (pc = "loop" /\ idx = Len(token_addresses) + 1)

\* C8: run_bot fetches every entry of token_addresses exactly once, in list
\* order, finishing one entry before the next; every way a pass ends moves to
\* the next entry, analyze_data runs only after the last entry, and a pass
\* whose fetch is not 200 changes nothing and makes no audit or trade call.
C8_EveryAddressProcessedInOrder == [](C8_State) /\ [][C8_Step]_vars

C8_Witness ==
    /\ pc = "analyze_bot"
    /\ calls[1].op = "fetch"
    /\ calls[1].arg = "failed"
    /\ PassOps(2) = <<"fetch", "audit", "insert", "trade">>
    /\ calls[Len(calls)].arg = "failed"

\* ---------------------------------------------------------------------- C9
PairOf(td) == Get(TheValue(td), "pair", EmptyDict)

BelowThreshold(p) ==
    \/ Get(Get(p, "liquidity", EmptyDict), "usd", 0) < config.filters.min_liquidity
    \/ Get(p, "fdv", 0) < config.filters.min_market_cap

Rejected == pc = "fetched" /\ token_data # None /\ BelowThreshold(PairOf(token_data))

C9_State ==
    Rejected => (~passes_filters(PairOf(token_data)) /\ PassOps(idx) = <<"fetch">>)

C9_Step ==
    Rejected =>
        /\ UNCHANGED <<file, config, tokens, txn, calls>>
        /\ pc' = "loop"
        /\ idx' = idx + 1

\* C9: passes_filters is false for a pair whose liquidity or fdv (absent as
\* 0) is below its threshold, and the pass then ends at once: no audit call,
\* blacklist (memory and file) and table unchanged, no row, no trade.
C9_RejectedPairIsSkipped == [](C9_State) /\ [][C9_Step]_vars

C9_Witness ==
    /\ Rejected
    /\ SomeHolderAboveHalf(TheValue(token_data))
    /\ Get(PairOf(token_data), "fdv", 0) >= config.filters.min_market_cap

\* --------------------------------------------------------------------- C10
\* C10: no row, committed or pending, has is_bundled_supply true, so the
\* bundled-supply subset analyze_data computes is empty.
C10_NoBundledRow ==
    /\ \A k \in 1..Len(tokens) : ~tokens[k].is_bundled_supply
    /\ \A k \in 1..Len(txn) : ~txn[k].is_bundled_supply
    /\ bundled_supply_tokens(tokens) = <<>>
    /\ df_bundled = <<>>

C10_Witness ==
    /\ pc = "end"
    /\ Len(tokens) > 0
    /\ "add" \in Range(OpsOf(calls))

====
